---- MODULE Spec2Model ----
(***************************************************************************)
(* Model of researchllm.py: the category parser, the prompt sampler, the   *)
(* research-query client, the result formatter and the two Streamlit       *)
(* handlers that drive them.  Text is modelled character by character:     *)
(* every Python string is a TLA+ string, every Python list a sequence and  *)
(* every dict a function over its keys.                                    *)
(***************************************************************************)
EXTENDS Integers, Sequences, FiniteSets, TLC

(***************************************************************************)
(* Python string primitives used by the program.                           *)
(***************************************************************************)

\* s[i] for a 1-based index i
CharAt(s, i) == SubSeq(s, i, i)

\* s[i-1:] in Python terms: the suffix of s that starts at index i
Suffix(s, i) == SubSeq(s, i, Len(s))

\* str.startswith
StartsWith(s, p) == Len(p) <= Len(s) /\ SubSeq(s, 1, Len(p)) = p

\* the least element of a non-empty set of integers
Least(S) == CHOOSE x \in S : \A y \in S : x <= y

\* str.find from index i (1-based): the first index >= i where sub occurs, 0 if none
Find(s, sub, i) ==
    LET hits == {j \in i..(Len(s) - Len(sub) + 1) : SubSeq(s, j, j + Len(sub) - 1) = sub}
    IN  IF hits = {} THEN 0 ELSE Least(hits)

\* the `in` operator on strings
Contains(s, sub) == Find(s, sub, 1) # 0

\* str.split(sep) for a non-empty separator
RECURSIVE Split(_, _)
Split(s, sep) ==
    LET i == Find(s, sep, 1)
    IN  IF i = 0 THEN <<s>>
        ELSE <<SubSeq(s, 1, i - 1)>> \o Split(Suffix(s, i + Len(sep)), sep)

\* the index of the first character of s from index i on that is not in the
\* set cs, Len(s) + 1 if there is none
SkipForward(s, i, cs) ==
    CHOOSE j \in i..(Len(s) + 1) :
        /\ j = Len(s) + 1 \/ CharAt(s, j) \notin cs
        /\ \A k \in i..(j - 1) : CharAt(s, k) \in cs

\* the index of the last character of s that is not in the set cs, 0 if none
SkipBackward(s, cs) ==
    CHOOSE j \in 0..Len(s) :
        /\ j = 0 \/ CharAt(s, j) \notin cs
        /\ \A k \in (j + 1)..Len(s) : CharAt(s, k) \in cs

\* the characters matched by \s in a regex and removed by str.strip()
Spaces == {" ", "\t", "\n", "\r", "\f"}

\* the characters matched by \d
Digits == {"0", "1", "2", "3", "4", "5", "6", "7", "8", "9"}

\* str.strip(chars): the characters of cs removed at both ends
StripChars(s, cs) ==
    LET first == SkipForward(s, 1, cs)
    IN  IF first > Len(s) THEN "" ELSE SubSeq(s, first, SkipBackward(s, cs))

\* str.strip()
Strip(s) == StripChars(s, Spaces)

\* str.strip('*')
StripStar(s) == StripChars(s, {"*"})

\* str.lower() on ASCII text
UpperChars == "ABCDEFGHIJKLMNOPQRSTUVWXYZ"
LowerChars == "abcdefghijklmnopqrstuvwxyz"

LowerChar(c) ==
    LET i == Find(UpperChars, c, 1)
    IN  IF i = 0 THEN c ELSE CharAt(LowerChars, i)

RECURSIVE Lower(_)
Lower(s) ==
    IF Len(s) = 0 THEN ""
    ELSE IF Len(s) = 1 THEN LowerChar(s)
    ELSE LET h == Len(s) \div 2
         IN  Lower(SubSeq(s, 1, h)) \o Lower(Suffix(s, h + 1))

\* str(n) of a small non-negative integer, as an f-string renders it
Digit(n) == CharAt("0123456789", n + 1)
IntToStr(n) == IF n < 10 THEN Digit(n) ELSE Digit(n \div 10) \o Digit(n % 10)

(***************************************************************************)
(* parse_research_categories                                               *)
(***************************************************************************)

\* the regex \*\*\d+\.\s+ matched at index i: the index after the match, 0 for
\* no match there
MarkerEnd(s, i) ==
    IF i + 1 > Len(s) \/ SubSeq(s, i, i + 1) # "**" THEN 0
    ELSE LET d == SkipForward(s, i + 2, Digits)
         IN  IF d = i + 2 \/ d > Len(s) \/ CharAt(s, d) # "." THEN 0
             ELSE LET w == SkipForward(s, d + 1, Spaces)
                  IN  IF w = d + 1 THEN 0 ELSE w

\* the first index >= i of s where the marker matches, 0 if none
MarkerFind(s, i) ==
    LET hits == {j \in i..Len(s) : MarkerEnd(s, j) # 0}
    IN  IF hits = {} THEN 0 ELSE Least(hits)

\* re.split(r'\*\*\d+\.\s+', text)
RECURSIVE ReSplit(_)
ReSplit(s) ==
    LET i == MarkerFind(s, 1)
    IN  IF i = 0 THEN <<s>>
        ELSE <<SubSeq(s, 1, i - 1)>> \o ReSplit(Suffix(s, MarkerEnd(s, i)))

\* re.split(...) with the text before the first marker kept as a category
SplitKeepFirst(text) == ReSplit(text)

\* re.split(...)[1:]
SplitCategories(text) == Tail(ReSplit(text))

\* d[k] = v on a dict
Put(d, k, v) == [x \in DOMAIN d \cup {k} |-> IF x = k THEN v ELSE d[x]]

\* the empty dict
EmptyDict == [x \in {} |-> ""]

LabelDescription == "**Description:**"
LabelPrompt == "**Research Prompt:**"
LabelConcepts == "**Key Concepts:**"

\* [concept.strip() for concept in ....split(',')]
StripAll(xs) == [i \in 1..Len(xs) |-> Strip(xs[i])]

\* the body of the loop over lines[1:] for one line
ParseLine(details, line) ==
    IF StartsWith(line, "* " \o LabelDescription)
    THEN Put(details, "description", Strip(Split(line, LabelDescription)[2]))
    ELSE IF StartsWith(line, "* " \o LabelPrompt)
    THEN Put(details, "research_prompt",
             StripStar(Strip(Split(line, LabelPrompt)[2])))
    ELSE IF StartsWith(line, "* " \o LabelConcepts)
    THEN Put(details, "key_concepts",
             StripAll(Split(Strip(Split(line, LabelConcepts)[2]), ",")))
    ELSE details

\* the loop over lines[1:], from line i on
RECURSIVE ParseLines(_, _, _)
ParseLines(details, lines, i) ==
    IF i > Len(lines) THEN details
    ELSE ParseLines(ParseLine(details, lines[i]), lines, i + 1)

\* the loop over the categories, from category i on
RECURSIVE ParseCategories(_, _, _)
ParseCategories(research_dict, categories, i) ==
    IF i > Len(categories) THEN research_dict
    ELSE LET lines == Split(Strip(categories[i]), "\n")
             category_name == StripStar(lines[1])
         IN  ParseCategories(
                 Put(research_dict, category_name, ParseLines(EmptyDict, lines, 2)),
                 categories, i + 1)

parse_research_categories(text) ==
    ParseCategories(EmptyDict, SplitCategories(text), 1)

(***************************************************************************)
(* generate_research_prompts                                               *)
(***************************************************************************)

\* what the call gives back: the list returned, or the exception it raised
Returned(prompts) == [raised |-> "", value |-> prompts]
Raised(e) == [raised |-> e, value |-> <<>>]

\* what one iteration gives: the prompt appended, or the exception it raised
Picked(prompt) == [raised |-> "", value |-> prompt]
Failed(e) == [raised |-> e, value |-> ""]

\* the f-string of the synthesized prompt
SynthesizedPrompt(concept, category) ==
    "How can " \o Lower(concept) \o " be applied in " \o Lower(category)
        \o " to improve solar farm efficiency?"

\* the outcomes of one iteration once random.choice has picked `category` and
\* the coin has come up `coin`
ChoiceOutcomes(research_dict, category, coin) ==
    LET category_data == research_dict[category]
    IN  IF coin
        THEN IF "research_prompt" \in DOMAIN category_data
             THEN {Picked(category_data["research_prompt"])}
             ELSE {Failed("KeyError")}
        ELSE IF "key_concepts" \notin DOMAIN category_data
             THEN {Failed("KeyError")}
             ELSE LET concepts == category_data["key_concepts"]
                  IN  IF Len(concepts) = 0 THEN {Failed("IndexError")}
                      ELSE {Picked(SynthesizedPrompt(concepts[k], category)) :
                                k \in 1..Len(concepts)}

\* the outcomes of one iteration of the loop: random.choice(categories) raises
\* IndexError on an empty list
IterationOutcomes(research_dict) ==
    IF DOMAIN research_dict = {} THEN {Failed("IndexError")}
    ELSE UNION {ChoiceOutcomes(research_dict, category, coin) :
                    category \in DOMAIN research_dict, coin \in BOOLEAN}

\* the outcomes of the loop with `left` iterations to go and `prompts` appended
\* so far
RECURSIVE SampleLoop(_, _, _)
SampleLoop(research_dict, left, prompts) ==
    IF left <= 0 THEN {Returned(prompts)}
    ELSE UNION {IF o.raised # "" THEN {Raised(o.raised)}
                ELSE SampleLoop(research_dict, left - 1, Append(prompts, o.value)) :
                    o \in IterationOutcomes(research_dict)}

\* a sampler that returns no prompt for an empty map instead of raising
SampleGuarded(research_dict, num_prompts) ==
    IF DOMAIN research_dict = {} THEN {Returned(<<>>)}
    ELSE SampleLoop(research_dict, num_prompts, <<>>)

\* every outcome the random draws allow
generate_research_prompts(research_dict, num_prompts) ==
    SampleLoop(research_dict, num_prompts, <<>>)

(***************************************************************************)
(* create_prompt, query_perplexity, format_output                          *)
(***************************************************************************)

\* the f-string of create_prompt with its three holes
Instruction(topic, depth, focus) ==
    "Conduct a comprehensive research on the topic: \"" \o topic \o "\".\n"
    \o "    Depth of research: " \o IntToStr(depth) \o "/5\n"
    \o "    Focus areas: " \o focus \o "\n"
    \o "\n"
    \o "    Please provide:\n"
    \o "    1. A brief overview of the topic\n"
    \o "    2. Key findings or main points (bulleted list)\n"
    \o "    3. Important details or explanations for each main point\n"
    \o "    4. Any relevant statistics or data\n"
    \o "    5. Current trends or future outlook\n"
    \o "    6. Potential applications or implications\n"
    \o "    7. Challenges or limitations\n"
    \o "    8. Conclusion or summary\n"
    \o "\n"
    \o "    Be precise and concise in your explanations."

\* create_prompt with topic and focus exchanged
CreatePromptSwapped(topic, depth, focus) == Instruction(focus, depth, topic)

create_prompt(topic, depth, focus) == Instruction(topic, depth, focus)

\* Python's None
None == [none |-> TRUE]

\* `not response`: None and the empty dict are falsy
Falsy(response) == response = None \/ DOMAIN response = {}

\* what requests.post followed by raise_for_status can do: fail in transport,
\* time out, answer with a non-success status, or answer with a JSON body
RequestExceptions == {"ConnectionError", "Timeout", "HTTPError"}

\* an except clause that catches connection failures and timeouts only
CaughtTransportOnly(kind) == kind \in {"ConnectionError", "Timeout"}

\* the except clause: the exception classes caught
Caught(kind) == kind \in RequestExceptions

\* query_perplexity for one behaviour `net` of the network: the value returned
\* (or the exception that escapes) and the st.error message shown
query_perplexity(net) ==
    IF net.kind = "ok"
    THEN [raised |-> "", value |-> net.body, error |-> ""]
    ELSE IF Caught(net.kind)
    THEN [raised |-> "", value |-> None,
          error |-> "Error querying Perplexity AI: " \o net.kind]
    ELSE [raised |-> net.kind, value |-> None, error |-> ""]

NoResponseMessage == "No response received from Perplexity AI."

\* the citations listed last to first
RECURSIVE SourceLinesReversed(_, _)
SourceLinesReversed(citations, k) ==
    IF k > Len(citations) THEN ""
    ELSE SourceLinesReversed(citations, k + 1) \o "- " \o citations[k]["url"] \o "\n"

\* the loop over the citations, from citation k on
RECURSIVE SourceLines(_, _)
SourceLines(citations, k) ==
    IF k > Len(citations) THEN ""
    ELSE "- " \o citations[k]["url"] \o "\n" \o SourceLines(citations, k + 1)

format_output(response) ==
    IF Falsy(response) THEN NoResponseMessage
    ELSE LET content == response["choices"][1]["message"]["content"]
             citations == IF "citations" \in DOMAIN response
                          THEN response["citations"] ELSE <<>>
         IN  "\nResearch Results:\n\n" \o content \o "\n\nSources:\n"
                 \o SourceLines(citations, 1)

(***************************************************************************)
(* The inputs: what the generative model, the network and the user supply. *)
(***************************************************************************)

\* the most prompts a run asks for, the most blocks a generated response holds
MaxPrompts == 3
MaxBlocks == 2

\* the low end of the prompt-count slider and the two ends of the depth slider
NumPromptsMin == 1
DepthMin == 1
DepthMax == 5

\* the two entries of the app-mode selectbox
GenerateMode == "Generate Research Prompts"
DirectMode == "Direct Perplexity AI Query"

\* A generated response is a preamble followed by blocks.  A block is described
\* by its category name and the way the model wrote it down:
\*   full        closing bold on the heading, padded description, bold prompt
\*   plain       two-digit numeral, no closing bold, a remark and a blank line
\*   trail       as full, with a space after the heading's closing bold
\*   noprompt    no research-prompt line
\*   noconcepts  no key-concepts line
\*   bare        the heading alone
Names == {"Alpha", "Beta Farm"}
Styles == {"full", "plain", "trail", "noprompt", "noconcepts", "bare"}
BlockSpecs == [name : Names, style : Styles]

Heading(b, k) ==
    CASE b.style = "plain" -> "**" \o IntToStr(k + 9) \o ".  " \o b.name \o "\n"
      [] b.style = "trail" -> "**" \o IntToStr(k) \o ". " \o b.name \o "** \n"
      [] OTHER -> "**" \o IntToStr(k) \o ". " \o b.name \o "**\n"

BodyLines(b) ==
    CASE b.style \in {"full", "trail"} ->
             "* **Description:**   About it  \n"
             \o "* **Research Prompt:** **What is it?**\n"
             \o "* **Key Concepts:** A, B,C\n\n"
      [] b.style = "plain" ->
             "Some remark\n"
             \o "* **Description:** Plain text\n\n"
             \o "  * **Description:** indented\n"
             \o "* **Research Prompt:** Why so?\n"
             \o "* **Key Concepts:** Solar Panel\n"
      [] b.style = "noprompt" ->
             "* **Description:** About it\n"
             \o "* **Key Concepts:** Drone , Sensor\n"
      [] b.style = "noconcepts" ->
             "* **Description:** About it\n"
             \o "* **Research Prompt:** What is it?\n"
      [] OTHER -> ""

RECURSIVE RenderBlocks(_, _)
RenderBlocks(blocks, k) ==
    IF k > Len(blocks) THEN ""
    ELSE Heading(blocks[k], k) \o BodyLines(blocks[k]) \o RenderBlocks(blocks, k + 1)

\* the text of a response
Render(g) == g.pre \o RenderBlocks(g.blocks, 1)

\* what each style's lines say, field by field
WrittenFields(style) ==
    CASE style \in {"full", "trail"} ->
             [description |-> "About it", research_prompt |-> "What is it?",
              key_concepts |-> <<"A", "B", "C">>]
      [] style = "plain" ->
             [description |-> "Plain text", research_prompt |-> "Why so?",
              key_concepts |-> <<"Solar Panel">>]
      [] style = "noprompt" ->
             [description |-> "About it", key_concepts |-> <<"Drone", "Sensor">>]
      [] style = "noconcepts" ->
             [description |-> "About it", research_prompt |-> "What is it?"]
      [] OTHER -> EmptyDict

\* sequences of at most n blocks
RECURSIVE BlockSeqs(_)
BlockSeqs(n) ==
    IF n = 0 THEN {<<>>}
    ELSE LET shorter == BlockSeqs(n - 1)
         IN  shorter \cup {Append(bs, b) : bs \in shorter, b \in BlockSpecs}

\* responses without any "**N. " marker
MarkerFree ==
    {"", "I cannot help with that.", "**1.Alpha**\n* **Description:** x\n",
     "*1. Alpha*\n", "**a. Alpha**\n", "**. Alpha\n", "1. **Alpha**\n",
     "** 1. Alpha\n* **Key Concepts:** A, B\n", "**12."}

Preambles == {"", "Here are the categories:\n\n"}

\* the responses the parser is called on
ParserInputs ==
    {[pre |-> p, blocks |-> <<>>] : p \in MarkerFree}
    \cup {[pre |-> p, blocks |-> bs] :
              p \in Preambles, bs \in BlockSeqs(MaxBlocks) \ {<<>>}}

Blk(n, st) == [name |-> n, style |-> st]

\* the responses the sampler's maps are parsed from
SamplerInputs ==
    {[pre |-> "", blocks |-> <<>>],
     [pre |-> "", blocks |-> <<Blk("Alpha", "full"), Blk("Beta Farm", "plain")>>],
     [pre |-> "", blocks |-> <<Blk("Alpha", "noprompt")>>],
     [pre |-> "", blocks |-> <<Blk("Alpha", "noconcepts")>>],
     [pre |-> "", blocks |-> <<Blk("Beta Farm", "bare")>>],
     [pre |-> "", blocks |-> <<Blk("Alpha", "full"), Blk("Beta Farm", "bare")>>]}

\* the responses the generative model gives the app
GeneratorInputs ==
    {[pre |-> "I cannot help with that.", blocks |-> <<>>],
     [pre |-> "", blocks |-> <<Blk("Beta Farm", "plain")>>],
     [pre |-> "", blocks |-> <<Blk("Beta Farm", "plain"), Blk("Alpha", "noconcepts")>>],
     [pre |-> "", blocks |-> <<Blk("Alpha", "bare")>>]}

\* the JSON bodies of the research API
Body(content, citations) ==
    [choices |-> <<[message |-> [content |-> content]]>>, citations |-> citations]
BodyWithoutCitations(content) ==
    [choices |-> <<[message |-> [content |-> content]]>>]
Cite(u) == [url |-> u]

Contents == {"X", "Line one\nLine two"}
CitationLists ==
    {<<>>, <<Cite("http://a")>>, <<Cite("http://a"), Cite("http://b")>>,
     <<Cite("http://b"), Cite("http://a")>>, <<Cite("http://a"), Cite("http://a")>>}
ApiBodies ==
    {Body(c, cs) : c \in Contents, cs \in CitationLists}
    \cup {BodyWithoutCitations(c) : c \in Contents}

\* what the network does to one request of the app
NetworkOutcomes ==
    {[kind |-> k, body |-> None] : k \in RequestExceptions}
    \cup {[kind |-> "ok", body |-> Body("X", <<Cite("http://a"), Cite("http://b")>>)]}

ResearchFields == {"Testing"}
UserPrompts == {"Explain the impact of AI.", "How can drones help?"}

(***************************************************************************)
(* The state of one run of the script.                                     *)
(***************************************************************************)

VARIABLES
    pc,                \* where the run stands
    app_mode,          \* the selectbox
    research_field,    \* the text input
    num_prompts,       \* the slider
    depth,             \* the slider
    user_prompt,       \* the text area of the direct mode
    result,            \* the generative model's text
    res,               \* the parsed dict
    research_prompts,  \* the sampled prompts
    i,                 \* enumerate's counter in the research loop
    response,          \* query_perplexity's return value
    formatted_result,  \* format_output's return value
    raised,            \* the exception that ended the run, "" for none
    trace,             \* the calls made and the elements shown, in order
    given,             \* how the generated response was written
    net                \* what the network did to each request so far

vars == <<pc, app_mode, research_field, num_prompts, depth, user_prompt, result,
          res, research_prompts, i, response, formatted_result, raised, trace,
          given, net>>

Ev(e, a) == [ev |-> e, arg |-> a]

NoGiven == [pre |-> "", blocks |-> <<>>]

\* the names of the events
CallGenerator == "chain.run"
CallParser == "parse_research_categories"
CallSampler == "generate_research_prompts"
CallPost == "requests.post"
ShowSubheader == "st.subheader"
ShowWrite == "st.write"
ShowMarkdown == "st.markdown"
ShowError == "st.error"
Uncaught == "exception"

\* the script has run down to the button of the chosen mode
Init ==
    /\ pc = "button"
    /\ app_mode \in {GenerateMode, DirectMode}
    /\ research_field \in ResearchFields
    /\ num_prompts \in NumPromptsMin..MaxPrompts
    /\ depth \in {DepthMin, DepthMax}
    /\ user_prompt \in UserPrompts
    /\ result = ""
    /\ res = EmptyDict
    /\ research_prompts = <<>>
    /\ i = 0
    /\ response = None
    /\ formatted_result = ""
    /\ raised = ""
    /\ trace = <<>>
    /\ given = NoGiven
    /\ net = <<>>

(***************************************************************************)
(* The "Generate Research Prompts and Query" handler.  The handler runs    *)
(* on one thread from top to bottom; it is cut into steps at its calls, pc *)
(* forcing them into the order of the code, so that the trace shows what   *)
(* has been called and shown when each request goes out.                   *)
(***************************************************************************)

\* generate_research_categories returns the model's text
GeneratorReturns ==
    /\ pc = "button"
    /\ app_mode = GenerateMode
    /\ \E g \in GeneratorInputs :
          /\ given' = g
          /\ result' = Render(g)
    /\ trace' = Append(trace, Ev(CallGenerator, research_field))
    /\ pc' = "parse"
    /\ UNCHANGED <<app_mode, research_field, num_prompts, depth, user_prompt, res,
                   research_prompts, i, response, formatted_result, raised, net>>

\* chain.run raises: nothing in the handler catches it
GeneratorFails ==
    /\ pc = "button"
    /\ app_mode = GenerateMode
    /\ raised' = "ModelError"
    /\ trace' = trace \o <<Ev(CallGenerator, research_field), Ev(Uncaught, "ModelError")>>
    /\ pc' = "exception"
    /\ UNCHANGED <<app_mode, research_field, num_prompts, depth, user_prompt, result,
                   res, research_prompts, i, response, formatted_result, given, net>>

\* res = parse_research_categories(result)
Parse ==
    /\ pc = "parse"
    /\ res' = parse_research_categories(result)
    /\ trace' = Append(trace, Ev(CallParser, ""))
    /\ pc' = "sample"
    /\ UNCHANGED <<app_mode, research_field, num_prompts, depth, user_prompt, result,
                   research_prompts, i, response, formatted_result, raised, given, net>>

\* research_prompts = generate_research_prompts(res, num_prompts)
Sample ==
    /\ pc = "sample"
    /\ \E o \in generate_research_prompts(res, num_prompts) :
          IF o.raised # ""
          THEN /\ raised' = o.raised
               /\ trace' = trace \o <<Ev(CallSampler, ""), Ev(Uncaught, o.raised)>>
               /\ pc' = "exception"
               /\ UNCHANGED research_prompts
          ELSE /\ research_prompts' = o.value
               /\ trace' = Append(trace, Ev(CallSampler, ""))
               /\ pc' = "show"
               /\ UNCHANGED raised
    /\ UNCHANGED <<app_mode, research_field, num_prompts, depth, user_prompt, result,
                   res, i, response, formatted_result, given, net>>

\* a display loop that stops one prompt short
WriteAllButLast(prompts, k) ==
    [m \in 1..(Len(prompts) - 1) |-> Ev(ShowWrite, IntToStr(m) \o ". " \o prompts[m])]

\* for i, prompt in enumerate(research_prompts, 1): st.write(f"{i}. {prompt}")
RECURSIVE WritePrompts(_, _)
WritePrompts(prompts, k) ==
    IF k > Len(prompts) THEN <<>>
    ELSE <<Ev(ShowWrite, IntToStr(k) \o ". " \o prompts[k])>>
             \o WritePrompts(prompts, k + 1)

\* the two subheaders and the list of prompts between them
ShowPrompts ==
    /\ pc = "show"
    /\ trace' = trace \o <<Ev(ShowSubheader, "Generated Research Prompts:")>>
                      \o WritePrompts(research_prompts, 1)
                      \o <<Ev(ShowSubheader, "Research Results:")>>
    /\ i' = 1
    /\ pc' = IF Len(research_prompts) = 0 THEN "done" ELSE "research"
    /\ UNCHANGED <<app_mode, research_field, num_prompts, depth, user_prompt, result,
                   res, research_prompts, response, formatted_result, raised, given,
                   net>>

\* the research loop down to requests.post: the request for prompt i is sent
SendQuery ==
    /\ pc = "research"
    /\ trace' = Append(trace, Ev(CallPost,
                    create_prompt(research_prompts[i], depth, research_field)))
    /\ pc' = "waiting"
    /\ UNCHANGED <<app_mode, research_field, num_prompts, depth, user_prompt, result,
                   res, research_prompts, i, response, formatted_result, raised,
                   given, net>>

\* what the handler shows once query_perplexity has returned `q`
Shown(q) ==
    (IF q.error # "" THEN <<Ev(ShowError, q.error)>> ELSE <<>>)
        \o <<Ev(ShowMarkdown, format_output(q.value))>>

\* the request comes back: query_perplexity returns, the result is formatted
\* and shown in its expander, and the loop moves on
QueryReturns ==
    /\ pc = "waiting"
    /\ app_mode = GenerateMode
    /\ \E n \in NetworkOutcomes :
          LET q == query_perplexity(n)
          IN  /\ net' = Append(net, n)
              /\ IF q.raised # ""
                 THEN /\ raised' = q.raised
                      /\ trace' = Append(trace, Ev(Uncaught, q.raised))
                      /\ pc' = "exception"
                      /\ UNCHANGED <<response, formatted_result, i>>
                 ELSE /\ response' = q.value
                      /\ formatted_result' = format_output(q.value)
                      /\ trace' = trace \o Shown(q)
                      /\ i' = i + 1
                      /\ pc' = IF i < Len(research_prompts) THEN "research" ELSE "done"
                      /\ UNCHANGED raised
    /\ UNCHANGED <<app_mode, research_field, num_prompts, depth, user_prompt, result,
                   res, research_prompts, given>>

(***************************************************************************)
(* The "Query Perplexity AI" handler.                                      *)
(***************************************************************************)

\* the prompt the direct mode hands to query_perplexity
DirectPrompt(text) == text

DirectSend ==
    /\ pc = "button"
    /\ app_mode = DirectMode
    /\ trace' = Append(trace, Ev(CallPost, DirectPrompt(user_prompt)))
    /\ pc' = "waiting"
    /\ UNCHANGED <<app_mode, research_field, num_prompts, depth, user_prompt, result,
                   res, research_prompts, i, response, formatted_result, raised,
                   given, net>>

DirectReturns ==
    /\ pc = "waiting"
    /\ app_mode = DirectMode
    /\ \E n \in NetworkOutcomes :
          LET q == query_perplexity(n)
          IN  /\ net' = Append(net, n)
              /\ IF q.raised # ""
                 THEN /\ raised' = q.raised
                      /\ trace' = Append(trace, Ev(Uncaught, q.raised))
                      /\ pc' = "exception"
                      /\ UNCHANGED <<response, formatted_result>>
                 ELSE /\ response' = q.value
                      /\ formatted_result' = format_output(q.value)
                      /\ trace' = trace
                             \o (IF q.error # "" THEN <<Ev(ShowError, q.error)>> ELSE <<>>)
                             \o <<Ev(ShowSubheader, "Research Result:"),
                                  Ev(ShowMarkdown, format_output(q.value))>>
                      /\ pc' = "done"
                      /\ UNCHANGED raised
    /\ UNCHANGED <<app_mode, research_field, num_prompts, depth, user_prompt, result,
                   res, research_prompts, i, given>>

\* the next interaction runs the script afresh; the widgets keep their values
Rerun ==
    /\ pc \in {"done", "exception"}
    /\ pc' = "button"
    /\ result' = ""
    /\ res' = EmptyDict
    /\ research_prompts' = <<>>
    /\ i' = 0
    /\ response' = None
    /\ formatted_result' = ""
    /\ raised' = ""
    /\ trace' = <<>>
    /\ given' = NoGiven
    /\ net' = <<>>
    /\ UNCHANGED <<app_mode, research_field, num_prompts, depth, user_prompt>>

Next ==
    \/ GeneratorReturns
    \/ GeneratorFails
    \/ Parse
    \/ Sample
    \/ ShowPrompts
    \/ SendQuery
    \/ QueryReturns
    \/ DirectSend
    \/ DirectReturns
    \/ Rerun

Spec == Init /\ [][Next]_vars

(***************************************************************************)
(* The three pure functions called on their own, as a unit test calls      *)
(* them: the parser on a response, the sampler on a parsed map and a       *)
(* count, the formatter on a response of the research API or on None.      *)
(***************************************************************************)

UnitDefaults ==
    /\ app_mode = "none"
    /\ research_field = ""
    /\ depth = DepthMin
    /\ user_prompt = ""
    /\ i = 0
    /\ research_prompts = <<>>
    /\ formatted_result = ""
    /\ raised = ""
    /\ trace = <<>>
    /\ net = <<>>

UnitInit ==
    /\ UnitDefaults
    /\ \/ /\ pc = "call_parse"
          /\ given \in ParserInputs
          /\ result = Render(given)
          /\ res = EmptyDict
          /\ num_prompts = 0
          /\ response = None
       \/ /\ pc = "call_sample"
          /\ given \in SamplerInputs
          /\ result = Render(given)
          /\ res = parse_research_categories(result)
          /\ num_prompts \in 0..MaxPrompts
          /\ response = None
       \/ /\ pc = "call_format"
          /\ given = NoGiven
          /\ result = ""
          /\ res = EmptyDict
          /\ num_prompts = 0
          /\ response \in {None} \cup ApiBodies

CallParse ==
    /\ pc = "call_parse"
    /\ res' = parse_research_categories(result)
    /\ pc' = "returned_parse"
    /\ UNCHANGED <<app_mode, research_field, num_prompts, depth, user_prompt, result,
                   research_prompts, i, response, formatted_result, raised, trace,
                   given, net>>

CallSample ==
    /\ pc = "call_sample"
    /\ \E o \in generate_research_prompts(res, num_prompts) :
          /\ raised' = o.raised
          /\ research_prompts' = o.value
    /\ pc' = "returned_sample"
    /\ UNCHANGED <<app_mode, research_field, num_prompts, depth, user_prompt, result,
                   res, i, response, formatted_result, trace, given, net>>

CallFormat ==
    /\ pc = "call_format"
    /\ formatted_result' = format_output(response)
    /\ pc' = "returned_format"
    /\ UNCHANGED <<app_mode, research_field, num_prompts, depth, user_prompt, result,
                   res, research_prompts, i, response, raised, trace, given, net>>

UnitNext ==
    \/ CallParse
    \/ CallSample
    \/ CallFormat

UnitSpec == UnitInit /\ [][UnitNext]_vars

(***************************************************************************)
(* Reading the trace.                                                      *)
(***************************************************************************)

\* the positions of the events named e, and how many there are
Positions(e) == {p \in 1..Len(trace) : trace[p].ev = e}
Count(e) == Cardinality(Positions(e))

\* how many events named e stand before position p
CountBefore(e, p) == Cardinality({q \in 1..(p - 1) : trace[q].ev = e})

\* the argument of the k-th event named e
NthArg(e, k) ==
    trace[CHOOSE p \in Positions(e) : CountBefore(e, p) = k - 1].arg

\* the errors the user sees: an st.error box, or the box of an uncaught exception
ErrorsShown == Count(ShowError) + Count(Uncaught)

\* the run is in the research loop of the generate handler, or past it
InResearch ==
    app_mode = GenerateMode /\ pc \in {"research", "waiting", "done"}

(***************************************************************************)
(* Claims about a run of the app (specification Spec).                     *)
(***************************************************************************)

\* C1: whatever subset of the research queries fails (transport failure, timeout,
\* non-success status), the cycle runs to its end: every query that has returned
\* has one formatted result, in prompt order; a failed query's result is the fixed
\* message, a successful query's result is its formatted answer; at the end there
\* are exactly N results; and no failure keeps a later query from being issued
\* (the run never ends in an exception once the first query is out, and while
\* prompts remain a step is enabled).
C1_PartialFailure ==
    /\ InResearch =>
          /\ raised = ""
          /\ Count(ShowMarkdown) = Len(net)
          /\ Count(ShowError) = Cardinality({k \in 1..Len(net) : net[k].kind # "ok"})
          /\ \A k \in 1..Len(net) :
                IF net[k].kind = "ok"
                THEN /\ NthArg(ShowMarkdown, k) # "No response received from Perplexity AI."
                     /\ Contains(NthArg(ShowMarkdown, k),
                                 net[k].body["choices"][1]["message"]["content"])
                     /\ \A c \in 1..Len(net[k].body["citations"]) :
                           Contains(NthArg(ShowMarkdown, k),
                                    net[k].body["citations"][c]["url"])
                ELSE NthArg(ShowMarkdown, k) = "No response received from Perplexity AI."
          /\ (pc = "done") = (Len(net) = num_prompts)
          /\ pc # "done" => ENABLED (SendQuery \/ QueryReturns)
    /\ (app_mode = GenerateMode /\ pc = "exception") => Count(CallPost) = 0

\* C1 witness: three prompts, the second query fails with a non-success status,
\* the first and the third results are still formatted and shown
C1_Witness ==
    /\ app_mode = GenerateMode /\ pc = "done" /\ num_prompts = 3
    /\ net[1].kind = "ok" /\ net[2].kind = "HTTPError" /\ net[3].kind = "ok"
    /\ Count(ShowMarkdown) = 3
    /\ NthArg(ShowMarkdown, 2) = NoResponseMessage
    /\ NthArg(ShowMarkdown, 1) # NoResponseMessage
    /\ NthArg(ShowMarkdown, 3) # NoResponseMessage

\* C2: in a cycle that samples N prompts the query client is invoked exactly N
\* times, once per prompt (no retry) and one after another (request k+1 goes out
\* only after request k has come back), and the instruction of request k, read
\* while that request is out, contains sampled prompt k, the depth and the
\* research field as focus.
C2_OneQueryPerPrompt ==
    InResearch =>
        /\ Len(research_prompts) = num_prompts
        /\ Count(CallPost) <= num_prompts
        /\ pc = "done" => Count(CallPost) = num_prompts
        /\ Count(CallPost) = Len(net) + (IF pc = "waiting" THEN 1 ELSE 0)
        /\ \A p \in Positions(CallPost) :
              CountBefore(ShowMarkdown, p) = CountBefore(CallPost, p)
        /\ pc = "waiting" =>
              LET k == Count(CallPost)
                  sent == trace[Len(trace)]
              IN  /\ sent.ev = CallPost
                  /\ k = i
                  /\ Contains(sent.arg, "on the topic: \"" \o research_prompts[k] \o "\"")
                  /\ Contains(sent.arg, "Depth of research: " \o IntToStr(depth) \o "/5")
                  /\ Contains(sent.arg, "Focus areas: " \o research_field \o "\n")

\* C2 witness: the end of a cycle of two prompts at depth 5
C2_Witness ==
    /\ app_mode = GenerateMode /\ pc = "done" /\ num_prompts = 2 /\ depth = 5
    /\ Count(CallPost) = 2
    /\ research_prompts[1] # research_prompts[2]
    /\ StartsWith(NthArg(CallPost, 2),
                  "Conduct a comprehensive research on the topic: \"" \o research_prompts[2])

\* the generator has failed, or the parser has returned no category and the
\* sampler has been called for at least one prompt
FatalToCycle ==
    /\ app_mode = GenerateMode
    /\ \/ raised = "ModelError"
       \/ /\ Count(CallSampler) = 1
          /\ DOMAIN res = {}
          /\ num_prompts >= 1

C10_Ordering ==
    /\ app_mode = GenerateMode =>
          /\ pc # "button" => (Count(CallGenerator) = 1 /\ trace[1].ev = CallGenerator)
          /\ Count(CallParser) <= 1 /\ Count(CallSampler) <= 1
          /\ Count(CallParser) = 1 => trace[2].ev = CallParser
          /\ Count(CallSampler) = 1 => trace[3].ev = CallSampler
          /\ \A p \in Positions(CallPost) :
                /\ CountBefore(CallSampler, p) = 1
                /\ CountBefore(ShowWrite, p) = num_prompts
                /\ CountBefore(ShowMarkdown, p) = CountBefore(CallPost, p)
          /\ Count(CallPost) > 0 =>
                \A k \in 1..num_prompts :
                    NthArg(ShowWrite, k) = IntToStr(k) \o ". " \o research_prompts[k]
    /\ app_mode = DirectMode =>
          /\ Count(CallGenerator) + Count(CallParser) + Count(CallSampler) = 0
          /\ Count(CallPost) = (IF pc = "button" THEN 0 ELSE 1)
          /\ \A p \in Positions(CallPost) : trace[p].arg = user_prompt

\* C10 witness: a finished cycle of two prompts, both shown before the first
\* request and each result shown before the next request
C10_Witness ==
    /\ app_mode = GenerateMode /\ pc = "done" /\ num_prompts = 2
    /\ Count(ShowWrite) = 2 /\ Count(CallPost) = 2 /\ Count(ShowMarkdown) = 2
    /\ \E p \in Positions(CallPost) : CountBefore(ShowMarkdown, p) = 1

(***************************************************************************)
(* Claims about the functions called on their own (specification UnitSpec).*)
(***************************************************************************)

\* C3: the sampler called with an empty map and a count N > 0 raises no
\* unhandled fault.
C3_EmptyMapNoFault ==
    (pc = "returned_sample" /\ DOMAIN res = {} /\ num_prompts > 0) => raised = ""

\* the prompt p is some category's researchPrompt, or the template filled with
\* the lower-cased name of a category and a lower-cased key concept of that
\* same category
FromTheMap(d, p) ==
    \E c \in DOMAIN d :
        \/ "research_prompt" \in DOMAIN d[c] /\ p = d[c]["research_prompt"]
        \/ /\ "key_concepts" \in DOMAIN d[c]
           /\ \E k \in 1..Len(d[c]["key_concepts"]) :
                 p = "How can " \o Lower(d[c]["key_concepts"][k]) \o " be applied in "
                         \o Lower(c) \o " to improve solar farm efficiency?"

\* C4: for N = 0 the sampler returns the empty sequence for every map; for N > 0
\* and every non-empty map it returns exactly N prompts, each taken from the map.
C4_SamplerContract ==
    pc = "returned_sample" =>
        /\ num_prompts = 0 => (raised = "" /\ research_prompts = <<>>)
        /\ (num_prompts > 0 /\ DOMAIN res # {}) =>
              /\ raised = ""
              /\ Len(research_prompts) = num_prompts
              /\ \A k \in 1..Len(research_prompts) : FromTheMap(res, research_prompts[k])

\* some record of the map lacks its researchPrompt or its keyConcepts
Incomplete(d) ==
    \E c \in DOMAIN d : {"research_prompt", "key_concepts"} \ DOMAIN d[c] # {}

\* C5: the sampler tolerates incomplete records without faulting: it falls back
\* to a key concept when the researchPrompt is absent, and resamples or omits the
\* slot when both are absent.
C5_IncompleteTolerated ==
    (pc = "returned_sample" /\ num_prompts > 0 /\ Incomplete(res)) =>
        /\ raised = ""
        /\ Len(research_prompts) <= num_prompts
        /\ \A k \in 1..Len(research_prompts) : FromTheMap(res, research_prompts[k])

\* the response is made of blocks with pairwise distinct names, each with its
\* description, research-prompt and key-concepts line
WellFormed(g) ==
    /\ Len(g.blocks) > 0
    /\ \A k \in 1..Len(g.blocks) : g.blocks[k].style \in {"full", "plain", "trail"}
    /\ \A k, m \in 1..Len(g.blocks) : g.blocks[k].name = g.blocks[m].name => k = m

\* C7: for a response of k well-formed blocks with distinct names the parser
\* returns exactly k keys, the category names without bold markers, and every
\* record holds the three fields with the text after the label, keyConcepts
\* being the comma-split, trimmed list in order; the preamble and the lines
\* without a label contribute nothing.
C7_WellFormedParsed ==
    (pc = "returned_parse" /\ WellFormed(given)) =>
        /\ DOMAIN res = {given.blocks[k].name : k \in 1..Len(given.blocks)}
        /\ \A k \in 1..Len(given.blocks) :
              /\ given.blocks[k].name \in DOMAIN res
              /\ res[given.blocks[k].name] = WrittenFields(given.blocks[k].style)

\* C8: for every text without a "**N. " marker, the empty text included, the
\* parser returns the empty map.
C8_NoMarkerEmptyMap ==
    (pc = "returned_parse" /\ given.blocks = <<>>) => res = EmptyDict

\* C8 witness: a numeral with no whitespace after its period is no marker
C8_Witness ==
    /\ pc = "returned_parse"
    /\ given.blocks = <<>>
    /\ given.pre = "**1.Alpha**\n* **Description:** x\n"
    /\ res = EmptyDict

\* the URLs of a response, in the order the API gave them
Urls(r) ==
    IF "citations" \in DOMAIN r
    THEN [k \in 1..Len(r["citations"]) |-> r["citations"][k]["url"]]
    ELSE <<>>

\* C9: None is formatted to the fixed message; a result is formatted to text
\* that holds the content followed by a "Sources" section listing every citation
\* URL once, one per line, in the API's order, unaltered; no citations give an
\* empty section.
C9_Formatting ==
    pc = "returned_format" =>
        IF response = None
        THEN formatted_result = "No response received from Perplexity AI."
        ELSE LET content == response["choices"][1]["message"]["content"]
                 at == Find(formatted_result, content, 1)
                 sources == Find(formatted_result, "Sources:\n", 1)
                 listed == Split(Suffix(formatted_result, sources + Len("Sources:\n")), "\n")
             IN  /\ at # 0
                 /\ sources >= at + Len(content)
                 /\ Len(listed) = Len(Urls(response)) + 1
                 /\ listed[Len(listed)] = ""
                 /\ \A k \in 1..Len(Urls(response)) :
                       listed[k] = "- " \o Urls(response)[k]

\* C9 witness: two citations, listed in the order given
C9_Witness ==
    /\ pc = "returned_format"
    /\ response # None
    /\ Urls(response) = <<"http://b", "http://a">>
    /\ Contains(formatted_result, "Sources:\n- http://b\n- http://a\n")

====
